---- MODULE Spec2Model ----
(***************************************************************************)
(* Model of harmonica/forward/tesseroid.py: tesseroid_gravity and the      *)
(* adaptive discretization / point-mass conversion it drives.              *)
(*                                                                         *)
(* Tesseroids are 6-tuples <<w, e, s, n, bottom, top>>.  Coordinates are   *)
(* integers in units of 1/Side of the input tesseroid's edge, so that the  *)
(* halvings of _split_tesseroid are exact (the partition of the input is  *)
(* a property of exact arithmetic).  The outcome of the three floating     *)
(* point comparisons "distance / l < distance_size_ratio" of one loop      *)
(* iteration (lines 324, 326, 328) is a triple of booleans, any of the     *)
(* eight: every behaviour of the code in which the three divisions are     *)
(* defined, whatever the geometry, is one of the model's.  Two runs that   *)
(* pop the same tesseroid in the same step get the same triple, since the  *)
(* comparisons are a function of the popped tesseroid and of the fixed     *)
(* inputs of the call.  A division by a length that rounds to zero is not  *)
(* modelled.                                                               *)
(***************************************************************************)
EXTENDS Integers, Sequences, FiniteSets, TLC

\* ---------------------------------------------------------------- bounds
MaxStackSize == 4          \* stack_size ranges over 1..MaxStackSize
MaxDiscretizations == 4    \* max_discretizations over 0..MaxDiscretizations
MaxDegree == 2             \* GLQ degrees are 0, 1 or MaxDegree
\* The runs of one discretization are explored for the capacities with
\* stack_size + max_discretizations (+ 2 with radial discretization, which
\* doubles the ways a tesseroid can be split) at most MaxCapacity; whole
\* calls of tesseroid_gravity and pairs of runs for those within
\* MaxCallCapacity.
MaxCapacity == 7
MaxCallCapacity == 6

\* Edge of the input tesseroid in model units.  Every halving on the way to
\* a tesseroid leaves a sibling that fills a row of the stack or, once it is
\* final, a row of small_tesseroids, so no tesseroid that is split is more
\* than MaxStackSize + MaxDiscretizations - 1 halvings deep.
RECURSIVE Pow2(_)
Pow2(x) == IF x = 0 THEN 1 ELSE 2 * Pow2(x - 1)
Side == Pow2(MaxStackSize + MaxDiscretizations)

\* The iteration counter iters stops counting at IterCap, above the
\* stack_size + 2 * max_discretizations iterations a run can take.
IterCap == MaxStackSize + 2 * MaxDiscretizations + 3

VARIABLES
  coordinates,           \* tesseroid_gravity: computation point <<lon, lat, radius>>
  tesseroid,             \* tesseroid_gravity: the input tesseroid
  glq_degrees,           \* tesseroid_gravity: <<lon_degree, lat_degree, rad_degree>>
  stack_size,            \* stack.shape[0]
  max_discretizations,   \* small_tesseroids.shape[0]
  radial_discretization, \* three_dimensional_adaptive_discretization
  pc,                    \* position of the call
  stack,                 \* _adaptive_discretization: rows 0..stack_size-1
  stack_top,
  n_splits,
  error,
  small_tesseroids,      \* rows 0..max_discretizations-1
  n_lon, n_lat, n_rad,   \* split counts of the last iteration
  stack_hi,              \* highest row index of stack written so far
  leaf_hi,               \* highest row index of small_tesseroids written so far
  iters,                 \* loop iterations executed
  exception,             \* exception raised by tesseroid_gravity, or "none"
  n_point_masses,        \* tesseroid_gravity: n_nodes * n_splits
  point_masses,          \* entries 0..n_point_masses-1
  mass_index,
  mass_hi,               \* highest index of point_masses written so far
  leaf_it,               \* tesseroids_to_point_masses: outer range iterator
  i, j, k,               \* tesseroids_to_point_masses: loop variables
  bounds,                \* tesseroids_to_point_masses: w, e, s, n, bottom, top
  result,                \* TRUE once a numeric result is returned
  run2                   \* second discretization run (larger capacities)

vars == <<coordinates, tesseroid, glq_degrees, stack_size, max_discretizations,
          radial_discretization, pc, stack, stack_top, n_splits, error,
          small_tesseroids, n_lon, n_lat, n_rad, stack_hi, leaf_hi,
          iters, exception, n_point_masses, point_masses, mass_index, mass_hi,
          leaf_it, i, j, k, bounds, result, run2>>

inputs == <<coordinates, tesseroid, glq_degrees, stack_size, max_discretizations,
            radial_discretization>>
discVars == <<stack, stack_top, n_splits, error, small_tesseroids, n_lon, n_lat,
              n_rad, stack_hi, leaf_hi, iters>>
pmVars == <<n_point_masses, point_masses, mass_index, mass_hi, leaf_it, i, j, k,
            bounds>>

\* ------------------------------------------------------------- data
Uninit == <<>>           \* a row of np.empty that was never written

Max(a, b) == IF a >= b THEN a ELSE b
Min(a, b) == IF a <= b THEN a ELSE b

\* np.empty((rows, 6))
Empty(rows) == [r \in 0..(rows - 1) |-> Uninit]

\* arr[row] = value
Write(arr, row, value) == [r \in DOMAIN arr |-> IF r = row THEN value ELSE arr[r]]

\* arr[:count] as a sequence (Python slices clamp to the array's length)
Slice(arr, count) == [x \in 1..Min(count, Cardinality(DOMAIN arr)) |-> arr[x - 1]]

ValidTesseroid == <<0, Side, 0, Side, Side, 2 * Side>>

Tesseroids ==
  { ValidTesseroid,
    <<Side, Side, 0, Side, Side, 2 * Side>>,      \* w = e
    <<0, Side, Side, 0, Side, 2 * Side>>,         \* s > n
    <<0, Side, 0, Side, 0, Side>>,                \* bottom = 0
    <<0, Side, 0, Side, 0 - Side, 0>>,            \* top = 0
    <<0, Side, 0, Side, 2 * Side, Side>> }        \* bottom > top

Points ==
  { <<Side \div 2, Side \div 2, Side + Side \div 2>>,   \* strictly inside
    <<Side \div 2, Side \div 2, 2 * Side>> }            \* on the top surface

DegreeTriples ==
  { <<0, 1, 1>>, <<1, MaxDegree, 0>>,
    <<MaxDegree, 1, MaxDegree>>, <<1, MaxDegree, 1>> }

Criteria == BOOLEAN \X BOOLEAN \X BOOLEAN

\* <<stack_size, max_discretizations, radial_discretization>> within a budget
Capacities(budget) ==
  { cap \in (1..MaxStackSize) \X (0..MaxDiscretizations) \X BOOLEAN :
      cap[1] + cap[2] + (IF cap[3] THEN 2 ELSE 0) <= budget }

\* ------------------------------------------------------------- validation
\* _check_tesseroid: TRUE when it raises
check_tesseroid(t) ==
  LET w == t[1] e == t[2] s == t[3] n == t[4] bottom == t[5] top == t[6]
  IN  \/ w >= e
      \/ s >= n
      \/ bottom <= 0 \/ top <= 0
      \/ bottom >= top

\* _check_point_outside_tesseroid: TRUE when it raises
check_point_outside_tesseroid(c, t) ==
  LET longitude == c[1] latitude == c[2] radius == c[3]
      w == t[1] e == t[2] s == t[3] n == t[4] bottom == t[5] top == t[6]
      inside_longitude == longitude > w /\ longitude < e
      inside_latitude == latitude > s /\ latitude < n
      inside_radius == radius > bottom /\ radius < top
  IN  inside_longitude /\ inside_latitude /\ inside_radius

\* ------------------------------------------------------------- discretization
\* variant: the radial comparison alone decides n_rad
SplitCounts_no_flag(c, radial) ==
  << IF c[1] THEN 2 ELSE 1,
     IF c[2] THEN 2 ELSE 1,
     IF c[3] THEN 2 ELSE 1 >>

\* n_lon, n_lat, n_rad of one iteration from the comparisons' outcomes
SplitCounts(c, radial) ==
  << IF c[1] THEN 2 ELSE 1,
     IF c[2] THEN 2 ELSE 1,
     IF c[3] /\ radial THEN 2 ELSE 1 >>

\* variant: a tesseroid with no marked axis is split into itself
Splits_always(nlon, nlat, nrad) == nlon * nlat * nrad >= 1

\* if n_lon * n_lat * n_rad > 1
Splits(nlon, nlat, nrad) == nlon * nlat * nrad > 1

\* variant: one row too many is accepted
StackFull_lax(top, children, size) == (top + 1) + children > size + 1

\* variant: the row of the popped tesseroid is not reused
StackFull_strict(top, children, size) == (top + 2) + children > size

\* if (stack_top + 1) + n_lon * n_lat * n_rad > stack.shape[0]
StackFull(top, children, size) == (top + 1) + children > size

\* variant: one leaf too many is accepted
LeafFull_lax(count, size) == count > size

\* variant: the last row of small_tesseroids is never used
LeafFull_strict(count, size) == count + 1 >= size

\* if n_splits + 1 > small_tesseroids.shape[0]
LeafFull(count, size) == count + 1 > size

\* variant: the latitude bounds are computed with the longitude index
Child_index_mixup(t, nlon, nlat, nrad, ci, cj, ck) ==
  LET w == t[1] e == t[2] s == t[3] n == t[4] bottom == t[5] top == t[6]
      d_lon == (e - w) \div nlon
      d_lat == (n - s) \div nlat
      d_rad == (top - bottom) \div nrad
  IN  << w + d_lon * ci, w + d_lon * (ci + 1),
         s + d_lat * ci, s + d_lat * (ci + 1),
         bottom + d_rad * ck, bottom + d_rad * (ck + 1) >>

\* child (ci, cj, ck) of tesseroid t in _split_tesseroid
Child(t, nlon, nlat, nrad, ci, cj, ck) ==
  LET w == t[1] e == t[2] s == t[3] n == t[4] bottom == t[5] top == t[6]
      d_lon == (e - w) \div nlon
      d_lat == (n - s) \div nlat
      d_rad == (top - bottom) \div nrad
  IN  << w + d_lon * ci, w + d_lon * (ci + 1),
         s + d_lat * cj, s + d_lat * (cj + 1),
         bottom + d_rad * ck, bottom + d_rad * (ck + 1) >>

\* _split_tesseroid: the stack after the children are pushed above row top
\* (the c-th child in (i, j, k) row-major order goes to row top + 1 + c)
split_tesseroid(t, nlon, nlat, nrad, stk, top) ==
  [r \in DOMAIN stk |->
     IF r > top /\ r <= top + nlon * nlat * nrad
       THEN LET c == r - top - 1
            IN  Child(t, nlon, nlat, nrad,
                      c \div (nlat * nrad), (c \div nrad) % nlat, c % nrad)
       ELSE stk[r]]

\* One iteration of the while loop of _adaptive_discretization on a run
\* (stk, top, count, leaves) with the comparisons' outcome c.
adaptive_discretization_step(stk, top, count, leaves, c, radial) ==
  LET t == stk[top]
      top1 == top - 1
      ns == SplitCounts(c, radial)
      children == ns[1] * ns[2] * ns[3]
      base == [stack |-> stk, stack_top |-> top1, n_splits |-> count,
               small_tesseroids |-> leaves, error |-> 0, returned |-> FALSE,
               n_lon |-> ns[1], n_lat |-> ns[2], n_rad |-> ns[3],
               stack_hi |-> -1, leaf_hi |-> -1]
  IN  IF Splits(ns[1], ns[2], ns[3])
        THEN IF StackFull(top1, children, Cardinality(DOMAIN stk))
               THEN [base EXCEPT !.error = -1, !.returned = TRUE]
               ELSE [base EXCEPT
                       !.stack = split_tesseroid(t, ns[1], ns[2], ns[3], stk, top1),
                       !.stack_top = top1 + children,
                       !.stack_hi = top1 + children]
        ELSE IF LeafFull(count, Cardinality(DOMAIN leaves))
               THEN [base EXCEPT !.error = -2, !.returned = TRUE]
               ELSE [base EXCEPT
                       !.small_tesseroids = Write(leaves, count, t),
                       !.n_splits = count + 1,
                       !.leaf_hi = count]

\* the results of one iteration become the state of the run
Apply(r) ==
  /\ stack' = r.stack
  /\ stack_top' = r.stack_top
  /\ n_splits' = r.n_splits
  /\ small_tesseroids' = r.small_tesseroids
  /\ error' = r.error
  /\ n_lon' = r.n_lon /\ n_lat' = r.n_lat /\ n_rad' = r.n_rad
  /\ stack_hi' = Max(stack_hi, r.stack_hi)
  /\ leaf_hi' = Max(leaf_hi, r.leaf_hi)
  /\ iters' = Min(iters + 1, IterCap)

\* ------------------------------------------------------------- conversion
\* variant: the outer loop counts with the variable i the inner loop reuses
OuterIndex_shared(it, ivar) == ivar + 1

\* index the outer "for i in range(len(tesseroids))" yields next: the range
\* iterator keeps its own position, whatever the inner loop assigns to i
OuterIndex(it, ivar) == it

\* the point mass written for node (ni, nj, nk) of the tesseroid with bounds b:
\* longitude, latitude and radius are the affine images of lon_nodes[ni],
\* lat_nodes[nj], rad_nodes[nk] on (w, e), (s, n), (bottom, top)
PointMass(b, ni, nj, nk) ==
  << <<b[1], b[2], ni>>, <<b[3], b[4], nj>>, <<b[5], b[6], nk>> >>

\* if error == -1
StackError(err) == err = -1

\* variant: the sentinel of the leaf overflow is not recognised
BufferError_missed(err) == err = -3

\* elif error == -2
BufferError(err) == err = -2

\* leggauss(deg) raises ValueError unless deg >= 1
leggauss_raises(deg) == deg < 1

\* ------------------------------------------------------------- tesseroid_gravity
NoRun == [status |-> "unused"]

InitRun ==
  /\ stack = Empty(0) /\ stack_top = -1 /\ n_splits = 0 /\ error = 0
  /\ small_tesseroids = Empty(0)
  /\ n_lon = 1 /\ n_lat = 1 /\ n_rad = 1
  /\ stack_hi = -1 /\ leaf_hi = -1 /\ iters = 0

InitConversion ==
  /\ n_point_masses = 0 /\ point_masses = Empty(0)
  /\ mass_index = 0 /\ mass_hi = -1
  /\ leaf_it = 0 /\ i = -1 /\ j = -1 /\ k = -1
  /\ bounds = Uninit

Init ==
  /\ coordinates \in Points
  /\ tesseroid \in Tesseroids
  /\ glq_degrees \in DegreeTriples
  /\ \E cap \in Capacities(MaxCallCapacity) :
       /\ stack_size = cap[1]
       /\ max_discretizations = cap[2]
       /\ radial_discretization = cap[3]
  /\ pc = "check_tesseroid"
  /\ exception = "none"
  /\ result = FALSE
  /\ run2 = NoRun
  /\ InitRun
  /\ InitConversion

Raise(kind) ==
  /\ pc' = "raised"
  /\ exception' = kind

\* line 114
CheckTesseroidRaises ==
  /\ pc = "check_tesseroid"
  /\ check_tesseroid(tesseroid)
  /\ Raise("InvalidTesseroid")
  /\ UNCHANGED <<inputs, discVars, pmVars, result, run2>>

CheckTesseroidPasses ==
  /\ pc = "check_tesseroid"
  /\ ~check_tesseroid(tesseroid)
  /\ pc' = "check_point"
  /\ UNCHANGED <<inputs, discVars, pmVars, result, run2, exception>>

\* line 115
CheckPointRaises ==
  /\ pc = "check_point"
  /\ check_point_outside_tesseroid(coordinates, tesseroid)
  /\ Raise("PointInsideTesseroid")
  /\ UNCHANGED <<inputs, discVars, pmVars, result, run2>>

CheckPointPasses ==
  /\ pc = "check_point"
  /\ ~check_point_outside_tesseroid(coordinates, tesseroid)
  /\ pc' = "allocate"
  /\ UNCHANGED <<inputs, discVars, pmVars, result, run2, exception>>

\* lines 117-118 and 310-313
StartDiscretization ==
  /\ pc = "allocate"
  /\ stack' = Write(Empty(stack_size), 0, tesseroid)
  /\ small_tesseroids' = Empty(max_discretizations)
  /\ stack_top' = 0
  /\ error' = 0
  /\ n_splits' = 0
  /\ stack_hi' = 0
  /\ pc' = "loop"
  /\ UNCHANGED <<inputs, n_lon, n_lat, n_rad, leaf_hi, iters, pmVars,
                 result, run2, exception>>

\* one iteration of the while loop (lines 314-346) whose outcome is kind
Iteration(kind) ==
  /\ stack_top >= 0
  /\ \E c \in Criteria :
       LET r == adaptive_discretization_step(stack, stack_top, n_splits,
                   small_tesseroids, c, radial_discretization)
       IN  /\ kind = (IF r.error = -1 THEN "stack_overflow"
                      ELSE IF r.error = -2 THEN "buffer_overflow"
                      ELSE IF Splits(r.n_lon, r.n_lat, r.n_rad) THEN "split"
                      ELSE "leaf")
           /\ Apply(r)
           /\ pc' = IF r.returned THEN "disc_returned" ELSE "loop"
  /\ UNCHANGED <<inputs, pmVars, result, run2, exception>>

\* lines 337-339: the popped tesseroid is replaced by its children
LoopSplit ==
  /\ pc = "loop"
  /\ Iteration("split")

\* lines 345-346: the popped tesseroid is recorded
LoopLeaf ==
  /\ pc = "loop"
  /\ Iteration("leaf")

\* lines 334-336
LoopStackOverflow ==
  /\ pc = "loop"
  /\ Iteration("stack_overflow")

\* lines 342-344
LoopBufferOverflow ==
  /\ pc = "loop"
  /\ Iteration("buffer_overflow")

\* line 314 false, line 347
LoopExit ==
  /\ pc = "loop"
  /\ stack_top < 0
  /\ pc' = "disc_returned"
  /\ UNCHANGED <<inputs, discVars, pmVars, result, run2, exception>>

\* lines 128-129
RaiseStackOverflow ==
  /\ pc = "disc_returned"
  /\ StackError(error)
  /\ Raise("StackOverflow")
  /\ UNCHANGED <<inputs, discVars, pmVars, result, run2>>

\* lines 130-133
RaiseBufferOverflow ==
  /\ pc = "disc_returned"
  /\ ~StackError(error) /\ BufferError(error)
  /\ Raise("BufferOverflow")
  /\ UNCHANGED <<inputs, discVars, pmVars, result, run2>>

\* line 135: leggauss rejects a degree
GlqRaises ==
  /\ pc = "disc_returned"
  /\ ~StackError(error) /\ ~BufferError(error)
  /\ \E d \in 1..3 : leggauss_raises(glq_degrees[d])
  /\ Raise("InvalidDegree")
  /\ UNCHANGED <<inputs, discVars, pmVars, result, run2>>

\* lines 135-139 and 192-199
GlqNodesWeights ==
  /\ pc = "disc_returned"
  /\ ~StackError(error) /\ ~BufferError(error)
  /\ \A d \in 1..3 : ~leggauss_raises(glq_degrees[d])
  /\ LET n_nodes == glq_degrees[1] * glq_degrees[2] * glq_degrees[3]
     IN  /\ n_point_masses' = n_nodes * n_splits
         /\ point_masses' = Empty(n_nodes * n_splits)
  /\ mass_index' = 0
  /\ leaf_it' = 0
  /\ pc' = "pm_outer"
  /\ UNCHANGED <<inputs, discVars, mass_hi, i, j, k, bounds, result, run2, exception>>

\* lines 200-207, and the heads of the three inner loops (208-210)
ConvertNextLeaf ==
  /\ pc = "pm_outer"
  /\ LET tesseroids == Slice(small_tesseroids, n_splits)
         idx == OuterIndex(leaf_it, i)
     IN  /\ idx < Len(tesseroids)
         /\ bounds' = tesseroids[idx + 1]
         /\ leaf_it' = idx + 1
  /\ i' = 0 /\ j' = 0 /\ k' = 0
  /\ pc' = "pm_inner"
  /\ UNCHANGED <<inputs, discVars, n_point_masses, point_masses, mass_index,
                 mass_hi, result, run2, exception>>

\* lines 211-226: one body of the innermost loop, then the loop heads
ConvertNode ==
  /\ pc = "pm_inner"
  /\ point_masses' = Write(point_masses, mass_index, PointMass(bounds, i, j, k))
  /\ mass_hi' = Max(mass_hi, mass_index)
  /\ mass_index' = mass_index + 1
  /\ IF k + 1 < glq_degrees[3]
       THEN k' = k + 1 /\ UNCHANGED <<i, j, pc>>
     ELSE IF j + 1 < glq_degrees[2]
       THEN j' = j + 1 /\ k' = 0 /\ UNCHANGED <<i, pc>>
     ELSE IF i + 1 < glq_degrees[1]
       THEN i' = i + 1 /\ j' = 0 /\ k' = 0 /\ UNCHANGED pc
     ELSE pc' = "pm_outer" /\ UNCHANGED <<i, j, k>>
  /\ UNCHANGED <<inputs, discVars, n_point_masses, leaf_it, bounds, result, run2,
                 exception>>

\* line 200 exhausted; tesseroids_to_point_masses returns
ConvertDone ==
  /\ pc = "pm_outer"
  /\ OuterIndex(leaf_it, i) >= Len(Slice(small_tesseroids, n_splits))
  /\ pc' = "evaluate"
  /\ UNCHANGED <<inputs, discVars, pmVars, result, run2, exception>>

\* lines 145-154
Evaluate ==
  /\ pc = "evaluate"
  /\ result' = TRUE
  /\ pc' = "done"
  /\ UNCHANGED <<inputs, discVars, pmVars, run2, exception>>

Next ==
  \/ CheckTesseroidRaises
  \/ CheckTesseroidPasses
  \/ CheckPointRaises
  \/ CheckPointPasses
  \/ StartDiscretization
  \/ LoopSplit
  \/ LoopLeaf
  \/ LoopStackOverflow
  \/ LoopBufferOverflow
  \/ LoopExit
  \/ RaiseStackOverflow
  \/ RaiseBufferOverflow
  \/ GlqRaises
  \/ GlqNodesWeights
  \/ ConvertNextLeaf
  \/ ConvertNode
  \/ ConvertDone
  \/ Evaluate

Spec == Init /\ [][Next]_vars

\* ------------------------------------------------------------- one run
\* _adaptive_discretization alone, called as tesseroid_gravity calls it
\* (lines 117-127) on inputs that passed the checks of lines 114-115.
DiscInputs(budget) ==
  /\ coordinates = <<Side \div 2, Side \div 2, 2 * Side>>
  /\ tesseroid = ValidTesseroid
  /\ glq_degrees = <<1, 1, 1>>
  /\ \E cap \in Capacities(budget) :
       /\ stack_size = cap[1]
       /\ max_discretizations = cap[2]
       /\ radial_discretization = cap[3]
  /\ pc = "allocate"
  /\ exception = "none"
  /\ result = FALSE
  /\ run2 = NoRun
  /\ InitRun
  /\ InitConversion

DiscInit == DiscInputs(MaxCapacity)

FairInit == DiscInputs(MaxCallCapacity)

DiscNext ==
  \/ StartDiscretization
  \/ LoopSplit
  \/ LoopLeaf
  \/ LoopStackOverflow
  \/ LoopBufferOverflow
  \/ LoopExit

DiscSpec == DiscInit /\ [][DiscNext]_vars

\* the loop is sequential code: a step that can be taken is taken
FairSpec == FairInit /\ [][DiscNext]_vars /\ WF_vars(DiscNext)

\* ------------------------------------------------------------- two runs
\* Two runs of _adaptive_discretization on the same coordinates, tesseroid,
\* distance_size_ratio and radial_discretization, stepped side by side: the
\* first on the buffers stack and small_tesseroids, the second (run2) on
\* buffers at least as large.
NewRun(size, leaves) ==
  [stack |-> Write(Empty(size), 0, tesseroid), stack_top |-> 0, n_splits |-> 0,
   error |-> 0, small_tesseroids |-> Empty(leaves), returned |-> FALSE]

\* one turn of the while loop of a run: an iteration, or the return of line 347
RunStep(run, c, radial) ==
  IF run.stack_top < 0
    THEN [run EXCEPT !.returned = TRUE]
    ELSE LET r == adaptive_discretization_step(run.stack, run.stack_top,
                      run.n_splits, run.small_tesseroids, c, radial)
         IN  [stack |-> r.stack, stack_top |-> r.stack_top,
              n_splits |-> r.n_splits, error |-> r.error,
              small_tesseroids |-> r.small_tesseroids, returned |-> r.returned]

PairInit ==
  /\ coordinates = <<Side \div 2, Side \div 2, 2 * Side>>
  /\ tesseroid = ValidTesseroid
  /\ glq_degrees = <<1, 1, 1>>
  /\ \E cap \in Capacities(MaxCallCapacity) :
       /\ radial_discretization = cap[3]
       /\ stack_size \in 1..cap[1]
       /\ max_discretizations \in 0..cap[2]
       /\ run2 = NewRun(cap[1], cap[2])
  /\ stack = Write(Empty(stack_size), 0, tesseroid)
  /\ small_tesseroids = Empty(max_discretizations)
  /\ stack_top = 0 /\ n_splits = 0 /\ error = 0
  /\ n_lon = 1 /\ n_lat = 1 /\ n_rad = 1
  /\ stack_hi = 0 /\ leaf_hi = -1 /\ iters = 0
  /\ pc = "loop"
  /\ exception = "none"
  /\ result = FALSE
  /\ InitConversion

\* both runs take a turn; the comparisons give the same outcome when both
\* pop the same tesseroid
PairStep ==
  /\ pc = "loop"
  /\ ~run2.returned
  /\ \E c1, c2 \in Criteria :
       /\ (stack_top >= 0 /\ run2.stack_top >= 0
             /\ stack[stack_top] = run2.stack[run2.stack_top]) => c1 = c2
       /\ IF stack_top >= 0
            THEN LET r == adaptive_discretization_step(stack, stack_top, n_splits,
                              small_tesseroids, c1, radial_discretization)
                 IN  /\ Apply(r)
                     /\ pc' = IF r.returned THEN "disc_returned" ELSE "loop"
            ELSE /\ pc' = "disc_returned"
                 /\ UNCHANGED discVars
       /\ run2' = RunStep(run2, c2, radial_discretization)
  /\ UNCHANGED <<inputs, pmVars, result, exception>>

\* the first run has returned; the second goes on
PairRest ==
  /\ pc = "disc_returned"
  /\ ~run2.returned
  /\ \E c2 \in Criteria : run2' = RunStep(run2, c2, radial_discretization)
  /\ UNCHANGED <<inputs, pc, discVars, pmVars, result, exception>>

PairNext ==
  \/ PairStep
  \/ PairRest

SpecPair == PairInit /\ [][PairNext]_vars

\* ============================================================= properties
\* the buffers exist and stack[0] holds the input tesseroid
Allocated == stack_hi >= 0

\* stack[0 .. stack_top] as a sequence
Pending == [x \in 1..(stack_top + 1) |-> stack[x - 1]]

\* small_tesseroids[:n_splits]
Leaves == Slice(small_tesseroids, n_splits)

Children == n_lon * n_lat * n_rad

\* ---- C1 ----
\* C1: every row written to stack lies in 0..stack_size-1 and every row
\* written to small_tesseroids in 0..max_discretizations-1; the number of
\* pending tesseroids never exceeds stack_size and n_splits never exceeds
\* max_discretizations; a write that would break this is replaced by a
\* return with error -1 or -2.
C1_BuffersInBounds ==
  /\ stack_hi <= stack_size - 1
  /\ leaf_hi <= max_discretizations - 1
  /\ stack_top >= -1 /\ stack_top + 1 <= stack_size
  /\ n_splits >= 0 /\ n_splits <= max_discretizations
  /\ leaf_hi = n_splits - 1
  /\ error \in {0, -1, -2}

\* both buffers were filled to their last row and the next leaf was refused
C1_Witness ==
  /\ pc = "disc_returned" /\ error = -2
  /\ stack_size > 1 /\ stack_hi = stack_size - 1
  /\ max_discretizations > 0 /\ leaf_hi = max_discretizations - 1

\* ---- C2 ----
Volume(t) == (t[2] - t[1]) * (t[4] - t[3]) * (t[6] - t[5])

RECURSIVE SumVolume(_)
SumVolume(ts) == IF ts = <<>> THEN 0 ELSE Volume(Head(ts)) + SumVolume(Tail(ts))

WellFormed(t) == t[1] < t[2] /\ t[3] < t[4] /\ t[5] < t[6]

Within(t, outer) ==
  /\ outer[1] <= t[1] /\ t[2] <= outer[2]
  /\ outer[3] <= t[3] /\ t[4] <= outer[4]
  /\ outer[5] <= t[5] /\ t[6] <= outer[6]

\* the interiors of a and b meet
Overlap(a, b) ==
  /\ Max(a[1], b[1]) < Min(a[2], b[2])
  /\ Max(a[3], b[3]) < Min(a[4], b[4])
  /\ Max(a[5], b[5]) < Min(a[6], b[6])

\* the tesseroids of ts tile outer: inside it, pairwise non-overlapping, and
\* of total volume that of outer
Tiles(ts, outer) ==
  /\ \A x \in 1..Len(ts) : WellFormed(ts[x]) /\ Within(ts[x], outer)
  /\ \A x, y \in 1..Len(ts) : x < y => ~Overlap(ts[x], ts[y])
  /\ SumVolume(ts) = Volume(outer)

\* C2: at the start of every loop iteration the pending tesseroids and the
\* recorded leaves together tile the input tesseroid; after a successful run
\* the returned leaves alone tile it.
C2_Partition ==
  /\ (pc = "loop" /\ error = 0) => Tiles(Pending \o Leaves, tesseroid)
  /\ (Allocated /\ pc # "loop" /\ error = 0) =>
       /\ Len(Leaves) = n_splits
       /\ Tiles(Leaves, tesseroid)

\* a successful run whose leaves come from more than one split
C2_Witness ==
  /\ pc = "disc_returned" /\ error = 0
  /\ n_splits >= 3
  /\ \E x, y \in 1..Len(Leaves) : Volume(Leaves[x]) # Volume(Leaves[y])

\* ---- C3 ----
\* C3 as stated: after an overflow the caller of the discretization receives
\* no leaf count and no leaf contents.
C3_NothingReturned ==
  (pc = "disc_returned" /\ error \in {-1, -2}) =>
     (n_splits = 0 /\ \A r \in DOMAIN small_tesseroids : small_tesseroids[r] = Uninit)

\* C3 amended: _adaptive_discretization returns the overflow error together
\* with the count of the leaves recorded so far, and tesseroid_gravity
\* discards them: it raises the matching overflow error, converts no
\* tesseroid to point masses and returns no numeric result.
C3_OverflowDiscarded ==
  (Allocated /\ pc # "loop" /\ error \in {-1, -2}) =>
     /\ pc \in {"disc_returned", "raised"}
     /\ n_splits = leaf_hi + 1
     /\ pc = "raised" =>
          exception = (IF error = -1 THEN "StackOverflow" ELSE "BufferOverflow")
     /\ result = FALSE
     /\ mass_hi = -1 /\ mass_index = 0 /\ n_point_masses = 0

\* the leaf overflow was raised with leaves already recorded
C3_Witness ==
  /\ pc = "raised" /\ exception = "BufferOverflow"
  /\ n_splits > 0 /\ small_tesseroids[0] # Uninit

\* ---- C4 ----
InvalidInput ==
  \/ check_tesseroid(tesseroid)
  \/ check_point_outside_tesseroid(coordinates, tesseroid)
  \/ \E d \in 1..3 : glq_degrees[d] < 1

\* C4 as stated: with a malformed tesseroid, a point inside the tesseroid or
\* a GLQ degree below 1, no step of the discretization loop is executed and
\* the error raised is the validation error, never an overflow.
C4_FailFast ==
  InvalidInput =>
     /\ iters = 0
     /\ pc = "raised" =>
          exception \in {"InvalidTesseroid", "PointInsideTesseroid", "InvalidDegree"}

\* ---- C6 ----
\* with stack_size = 1 the first iteration is the only one
C6_SizeOne ==
  (stack_size = 1 /\ iters >= 1 /\ Children > 1) =>
     /\ error = -1 /\ n_splits = 0 /\ stack_hi = 0 /\ iters = 1
     /\ pc \in {"disc_returned", "raised"}
     /\ pc = "raised" => exception = "StackOverflow"

\* one iteration: stack_top is the number of tesseroids left after the pop
C6_Exactly ==
  (pc = "loop" /\ stack_top >= 0) =>
     /\ (error' = -1) <=> (stack_top + n_lon' * n_lat' * n_rad' > stack_size)
     /\ (error' = -1) => (pc' = "disc_returned" /\ stack_hi' = stack_hi
                          /\ n_splits' = n_splits)

\* C6: with stack_size = 1 a root marked for splitting gives error -1 in the
\* first iteration, nothing pushed, n_splits = 0, raised as StackOverflow;
\* and an iteration returns error -1 exactly when the pending tesseroids left
\* after the pop plus the children exceed stack_size (so a stack of exactly
\* n_lon * n_lat * n_rad rows is enough to split the root).
C6_StackOverflow == [](C6_SizeOne) /\ [][C6_Exactly]_vars

C6_Witness ==
  /\ stack_size = 1 /\ pc = "raised" /\ exception = "StackOverflow"
  /\ iters = 1 /\ Children > 1

\* ---- C8 ----
\* C8: without radial discretization n_rad is 1 in every iteration and every
\* tesseroid pending or recorded has the bottom and top of the input.
C8_RadiiKept ==
  (Allocated /\ ~radial_discretization) =>
     /\ n_rad = 1
     /\ \A x \in 1..Len(Pending) :
          Pending[x][5] = tesseroid[5] /\ Pending[x][6] = tesseroid[6]
     /\ \A x \in 1..Len(Leaves) :
          Leaves[x][5] = tesseroid[5] /\ Leaves[x][6] = tesseroid[6]

\* leaves of a longitude and a latitude split, radii untouched
C8_Witness ==
  /\ ~radial_discretization /\ pc = "disc_returned" /\ error = 0
  /\ n_splits >= 3
  /\ \E x, y \in 1..Len(Leaves) :
       Leaves[x][2] - Leaves[x][1] # Leaves[y][2] - Leaves[y][1]
  /\ \E x, y \in 1..Len(Leaves) :
       Leaves[x][4] - Leaves[x][3] # Leaves[y][4] - Leaves[y][3]

\* ---- C9 ----
Nodes == glq_degrees[1] * glq_degrees[2] * glq_degrees[3]

\* C9: the conversion writes exactly len(tesseroids) * lon_degree *
\* lat_degree * rad_degree point masses, at the indices 0, 1, ... in order,
\* all inside the allocated n_nodes * n_splits entries; entry m is node
\* (i, j, k) in row-major order of leaf m div n_nodes, with that leaf's bounds.
C9_PointMasses ==
  /\ mass_hi = mass_index - 1
  /\ mass_hi <= n_point_masses - 1
  /\ pc \in {"evaluate", "done"} =>
       /\ n_point_masses = n_splits * Nodes
       /\ mass_index = Len(Leaves) * Nodes
       /\ \A m \in 0..(mass_index - 1) :
            point_masses[m] =
              PointMass(Leaves[(m \div Nodes) + 1],
                        (m % Nodes) \div (glq_degrees[2] * glq_degrees[3]),
                        (m \div glq_degrees[3]) % glq_degrees[2],
                        m % glq_degrees[3])

\* several leaves converted with a longitude degree above 1
C9_Witness ==
  /\ pc = "done" /\ n_splits >= 2 /\ glq_degrees[1] >= 2 /\ glq_degrees[3] >= 2
  /\ mass_index = 2 * Nodes

\* ---- C5 ----
Pending2 == [x \in 1..(run2.stack_top + 1) |-> run2.stack[x - 1]]

Leaves2 == Slice(run2.small_tesseroids, run2.n_splits)

\* C5: as long as the run with the smaller capacities has met no overflow,
\* the run with the larger ones is in the same state (same pending
\* tesseroids in the same rows, same n_splits, same leaves in the same
\* order), so when the first returns error 0 the second does too, with the
\* same n_splits and leaves.
C5_SameRun ==
  error = 0 =>
     /\ run2.error = 0
     /\ run2.returned <=> (pc = "disc_returned")
     /\ run2.stack_top = stack_top
     /\ Pending2 = Pending
     /\ run2.n_splits = n_splits
     /\ Leaves2 = Leaves
     /\ Len(Leaves) = n_splits

\* both runs returned the same leaves from buffers of different sizes
C5_Witness ==
  /\ pc = "disc_returned" /\ error = 0 /\ run2.returned
  /\ n_splits >= 2
  /\ stack_size < Cardinality(DOMAIN run2.stack)
  /\ max_discretizations < Cardinality(DOMAIN run2.small_tesseroids)

\* ---- C7 ----
\* without room for a leaf
C7_ZeroCapacity ==
  max_discretizations = 0 =>
     /\ leaf_hi = -1 /\ n_splits = 0
     /\ (iters >= 1 /\ Children = 1) => (error = -2 /\ pc = "disc_returned")

\* run2, with room, returned L = run2.n_splits leaves
C7_IffFits ==
  (pc = "disc_returned" /\ error # -1 /\ run2.returned /\ run2.error = 0) =>
     ((error = 0) <=> (run2.n_splits <= max_discretizations))

\* one iteration of the first run
C7_Exactly ==
  (pc = "loop" /\ stack_top >= 0) =>
     /\ (error' = -2) <=>
          (n_lon' * n_lat' * n_rad' = 1 /\ n_splits = max_discretizations)
     /\ (error' = -2) => (pc' = "disc_returned" /\ n_splits' = n_splits
                          /\ leaf_hi' = leaf_hi)

\* C7: with max_discretizations = 0 nothing is ever written to
\* small_tesseroids and the first tesseroid with no marked axis gives error
\* -2; an iteration returns error -2 exactly when no axis is marked and
\* n_splits = max_discretizations; and a run that meets no stack overflow,
\* on inputs whose discretization has L leaves, succeeds iff
\* L <= max_discretizations.
C7_BufferOverflow ==
  [](C7_ZeroCapacity /\ C7_IffFits) /\ [][C7_Exactly]_vars

\* without room for a leaf the run failed after a split, while the same
\* discretization with room succeeded
C7_Witness ==
  /\ max_discretizations = 0 /\ error = -2 /\ iters >= 2 /\ leaf_hi = -1
  /\ run2.returned /\ run2.error = 0 /\ run2.n_splits >= 2

\* ---- C10 ----
\* one iteration: a leaf, a net push, or an overflow
C10_Progress ==
  (pc = "loop" /\ stack_top >= 0) =>
     /\ iters' = iters + 1
     /\ \/ n_splits' = n_splits + 1 /\ stack_top' = stack_top - 1
        \/ stack_top' > stack_top /\ n_splits' = n_splits
        \/ error' \in {-1, -2} /\ pc' = "disc_returned"

C10_Bounded == iters <= stack_size + 2 * max_discretizations

====
